---- MODULE Spec2Model ----
(***************************************************************************)
(* A model of awebb_analytics.py: four fetch -> save -> process pipelines  *)
(* (text, CSV, Excel, JSON) run in sequence by main().                     *)
(*                                                                         *)
(* Text is a sequence of one-character strings.  File contents and report  *)
(* lines are strings or sequences of strings, so that two reports are      *)
(* equal exactly when they hold the same lines.                            *)
(***************************************************************************)
EXTENDS Integers, Sequences, FiniteSets, TLC

VARIABLES
    remote,     \* what each of the four URLs answers: status and body
    fs,         \* the data/ directory: the set of present files and their contents
    pc,         \* position of main()
    console,    \* lines printed during the current run, oldest first
    calls,      \* functions main() has called during the current run, in order
    run,        \* number of the current run of main()
    fetched,    \* main()'s local holding what the last fetch returned
    snapshot,   \* the report files as the first run left them
    envFault    \* TRUE once a transport or local filesystem fault has occurred

vars == <<remote, fs, pc, console, calls, run, fetched, snapshot, envFault>>

(***************************************************************************)
(* Bounds of the model.                                                    *)
(***************************************************************************)
MaxLen == 5      \* longest text handed to process_text_data on its own
MaxRows == 2     \* most data rows of a table handed to the tabular summarizers
MaxRuns == 2     \* runs of main() in succession
MaxItems == 2    \* most items of a JSON array or object

(***************************************************************************)
(* Small helpers.                                                          *)
(***************************************************************************)
RECURSIVE Join(_)
Join(s) == IF s = <<>> THEN "" ELSE Head(s) \o Join(Tail(s))

RECURSIVE SumSeq(_)
SumSeq(s) == IF s = <<>> THEN 0 ELSE Head(s) + SumSeq(Tail(s))

SeqsUpTo(S, n) == UNION {[1..k -> S] : k \in 0..n}

(***************************************************************************)
(* Files.  A file opened with mode 'w' is created or truncated; reading a  *)
(* file that is not present raises FileNotFoundError.                      *)
(***************************************************************************)
TextFile == "data.txt"
CsvFile == "data.csv"
ExcelFile == "data.xls"
JsonFile == "data.json"
TextReport == "processed_text.txt"
CsvReport == "processed_csv.txt"
ExcelReport == "processed_excel.txt"
JsonReport == "processed_json.txt"

ReportNames == {TextReport, CsvReport, ExcelReport, JsonReport}

Exists(f, name) == name \in f.present

\* the content a file opened with mode 'a' starts from
OpenAppend(old) == old

\* the content a file opened with mode 'w' starts from
OpenWrite(old) == <<>>

\* open(name, 'w') followed by writes of the given lines, then close
WriteLines(f, name, lines) ==
    [f EXCEPT !.present = @ \cup {name},
              !.content[name] = OpenWrite(IF Exists(f, name) THEN @ ELSE <<>>) \o lines]

\* faults of the local filesystem a call may meet
IoFaults == {"none", "read", "write"}

(***************************************************************************)
(* process_text_data                                                       *)
(***************************************************************************)
Whitespace == {" ", "\n", "\t"}

\* str.split(): the maximal runs of non-whitespace characters, in order
RECURSIVE SplitFrom(_, _, _, _)
SplitFrom(text, i, cur, words) ==
    IF i > Len(text)
    THEN IF cur = "" THEN words ELSE Append(words, cur)
    ELSE IF text[i] \in Whitespace
         THEN SplitFrom(text, i + 1, "", IF cur = "" THEN words ELSE Append(words, cur))
         ELSE SplitFrom(text, i + 1, cur \o text[i], words)

split(text) == SplitFrom(text, 1, "", <<>>)

\* a dict keeps its keys in insertion order: a sequence of <<key, value>>
DictHas(d, k) == \E i \in DOMAIN d : d[i][1] = k
DictGet(d, k, default) ==
    IF DictHas(d, k) THEN d[CHOOSE i \in DOMAIN d : d[i][1] = k][2] ELSE default

\* d[k] = v keeps the position of a key already present
DictSetMovesKey(d, k, v) ==
    SelectSeq(d, LAMBDA e : e[1] # k) \o <<<<k, v>>>>

DictSet(d, k, v) ==
    IF DictHas(d, k)
    THEN [i \in DOMAIN d |-> IF d[i][1] = k THEN <<k, v>> ELSE d[i]]
    ELSE Append(d, <<k, v>>)

\* for word in words: word_freq[word] = word_freq.get(word, 0) + 1
RECURSIVE WordFreqFrom(_, _, _)
WordFreqFrom(words, i, word_freq) ==
    IF i > Len(words) THEN word_freq
    ELSE WordFreqFrom(words, i + 1,
                      DictSet(word_freq, words[i], DictGet(word_freq, words[i], 0) + 1))

WordFreq(words) == WordFreqFrom(words, 1, <<>>)

\* len(set(words)) with words compared ignoring case
UniqueWordsFolded(words) == {IF w = "A" THEN "a" ELSE w : w \in {words[i] : i \in DOMAIN words}}

UniqueWords(words) == {words[i] : i \in DOMAIN words}

TextReportLines(text) ==
    LET words == split(text)
        word_freq == WordFreq(words)
    IN  << "Total words: " \o ToString(Len(words)),
           "Unique words: " \o ToString(Cardinality(UniqueWords(words))),
           "Word frequencies:" >>
        \o [i \in DOMAIN word_freq |-> word_freq[i][1] \o ": " \o ToString(word_freq[i][2])]

\* the result of process_text_data: the filesystem and the line it prints
process_text_data(f, fault) ==
    IF fault = "read" \/ ~Exists(f, TextFile)
    THEN [fs |-> f, printed |-> "Error processing text data: read"]
    ELSE IF fault = "write"
    THEN [fs |-> f, printed |-> "Error processing text data: write"]
    ELSE [fs |-> WriteLines(f, TextReport, TextReportLines(f.content[TextFile])),
          printed |-> "Text data processed and saved"]

(***************************************************************************)
(* Tables.  CSV text is a sequence of lines, each a sequence of cells; a   *)
(* cell is the text between two commas.  A DataFrame has named columns and *)
(* rows of cells; a column is numeric when it has rows and every cell      *)
(* parses as an integer.                                                   *)
(***************************************************************************)
IntLexemes == {ToString(n) : n \in 0..9}
ToInt(cell) == CHOOSE n \in 0..9 : ToString(n) = cell

EmptyFrame == [columns |-> <<>>, rows |-> <<>>]

\* pd.read_csv: blank lines are skipped, the first line left is the header;
\* no line left raises EmptyDataError
read_csv(lines) ==
    LET kept == SelectSeq(lines, LAMBDA l : l # <<>>)
    IN  IF kept = <<>>
        THEN [ok |-> FALSE, df |-> EmptyFrame]
        ELSE [ok |-> TRUE, df |-> [columns |-> Head(kept), rows |-> Tail(kept)]]

\* df.to_csv(path, index=False): the header line, then one line per row
to_csv(df) == <<df.columns>> \o df.rows

\* the workbook signature an .xls file starts with
XlsMagic == <<"D0CF11E0">>

\* pd.read_excel: bytes that are no workbook raise; the first sheet's first
\* row is the header
read_excel(bytes) ==
    IF bytes = <<>> \/ Head(bytes) # XlsMagic \/ Len(bytes) < 2
    THEN [ok |-> FALSE, df |-> EmptyFrame]
    ELSE [ok |-> TRUE, df |-> [columns |-> bytes[2], rows |-> SubSeq(bytes, 3, Len(bytes))]]

IsNumeric(df, j) ==
    /\ df.rows # <<>>
    /\ \A i \in DOMAIN df.rows : df.rows[i][j] \in IntLexemes

\* df.select_dtypes(include=['number']).columns: positions, in column order
NumericColumns(df) == SelectSeq([j \in DOMAIN df.columns |-> j], LAMBDA j : IsNumeric(df, j))

Values(df, j) == [i \in DOMAIN df.rows |-> ToInt(df.rows[i][j])]

RECURSIVE Gcd(_, _)
Gcd(a, b) == IF b = 0 THEN a ELSE Gcd(b, a % b)

\* a non-negative rational in lowest terms, as text
Frac(num, den) ==
    LET g == Gcd(num, den)
    IN  IF den \div g = 1 THEN ToString(num \div g)
        ELSE ToString(num \div g) \o "/" \o ToString(den \div g)

RECURSIVE Insert(_, _)
Insert(sorted, v) ==
    IF sorted = <<>> THEN <<v>>
    ELSE IF v <= Head(sorted) THEN <<v>> \o sorted
    ELSE <<Head(sorted)>> \o Insert(Tail(sorted), v)

RECURSIVE Sorted(_)
Sorted(vals) == IF vals = <<>> THEN <<>> ELSE Insert(Sorted(Tail(vals)), Head(vals))

SeqMax(vals) == CHOOSE m \in {vals[i] : i \in DOMAIN vals} : \A i \in DOMAIN vals : vals[i] <= m
SeqMin(vals) == CHOOSE m \in {vals[i] : i \in DOMAIN vals} : \A i \in DOMAIN vals : vals[i] >= m

Mean(vals) == Frac(SumSeq(vals), Len(vals))

Median(vals) ==
    LET s == Sorted(vals)
        n == Len(s)
    IN  IF n % 2 = 1 THEN Frac(s[(n + 1) \div 2], 1)
        ELSE Frac(s[n \div 2] + s[n \div 2 + 1], 2)

\* Series.std(): the sample standard deviation (ddof=1), nan below two values
Std(vals) ==
    LET n == Len(vals)
        sumsq == SumSeq([i \in DOMAIN vals |-> vals[i] * vals[i]])
        sum == SumSeq(vals)
    IN  IF n < 2 THEN "nan"
        ELSE "sqrt(" \o Frac(n * sumsq - sum * sum, n * (n - 1)) \o ")"

\* the metrics of one column, keyed in the order the dict literal sets them
Metrics(vals) ==
    << <<"Mean", Mean(vals)>>,
       <<"Median", Median(vals)>>,
       <<"Standard Deviation", Std(vals)>>,
       <<"Max", ToString(SeqMax(vals))>>,
       <<"Min", ToString(SeqMin(vals))>> >>

MetricLines(metrics) == [i \in DOMAIN metrics |-> metrics[i][1] \o ": " \o metrics[i][2]]

\* stats = {column: metrics} of a summarizer, in column order
StatsOf(df) ==
    LET num == NumericColumns(df)
    IN  [k \in DOMAIN num |-> <<df.columns[num[k]], Metrics(Values(df, num[k]))>>]

csv_stats(df) == StatsOf(df)

\* the metrics keyed with Min before Max
StatsSwapped(df) ==
    LET num == NumericColumns(df)
    IN  [k \in DOMAIN num |->
            LET m == Metrics(Values(df, num[k]))
            IN  <<df.columns[num[k]], <<m[1], m[2], m[3], m[5], m[4]>> >>]

excel_stats(df) == StatsOf(df)

RECURSIVE Flatten(_)
Flatten(ss) == IF ss = <<>> THEN <<>> ELSE Head(ss) \o Flatten(Tail(ss))

\* repr of one value of a row: integers bare, strings quoted
CellRepr(cell) == IF cell \in IntLexemes THEN cell ELSE "'" \o cell \o "'"

RECURSIVE JoinWith(_, _)
JoinWith(s, sep) ==
    IF s = <<>> THEN ""
    ELSE IF Len(s) = 1 THEN Head(s)
    ELSE Head(s) \o sep \o JoinWith(Tail(s), sep)

\* str(tuple(row))
TupleRepr(row) ==
    IF Len(row) = 1 THEN "(" \o CellRepr(row[1]) \o ",)"
    ELSE "(" \o JoinWith([j \in DOMAIN row |-> CellRepr(row[j])], ", ") \o ")"

CsvReportLines(df) ==
    LET stats == csv_stats(df)
    IN  <<"Rows as tuples:">>
        \o [i \in DOMAIN df.rows |-> TupleRepr(df.rows[i])]
        \o <<"", "Statistics for numeric columns:">>
        \o Flatten([k \in DOMAIN stats |->
                      <<"", stats[k][1] \o ":">> \o MetricLines(stats[k][2])])

ExcelReportLines(df) ==
    LET stats == excel_stats(df)
    IN  Flatten([k \in DOMAIN stats |->
                   <<"Statistics for " \o stats[k][1] \o ":">> \o MetricLines(stats[k][2])])

process_csv_data(f, fault) ==
    IF fault = "read" \/ ~Exists(f, CsvFile)
    THEN [fs |-> f, printed |-> "Error processing CSV data: read"]
    ELSE IF ~read_csv(f.content[CsvFile]).ok
    THEN [fs |-> f, printed |-> "Error processing CSV data: parse"]
    ELSE IF fault = "write"
    THEN [fs |-> f, printed |-> "Error processing CSV data: write"]
    ELSE [fs |-> WriteLines(f, CsvReport, CsvReportLines(read_csv(f.content[CsvFile]).df)),
          printed |-> "CSV data processed and saved"]

process_excel_data(f, fault) ==
    IF fault = "read" \/ ~Exists(f, ExcelFile)
    THEN [fs |-> f, printed |-> "Error processing Excel data: read"]
    ELSE IF ~read_excel(f.content[ExcelFile]).ok
    THEN [fs |-> f, printed |-> "Error processing Excel data: parse"]
    ELSE IF fault = "write"
    THEN [fs |-> f, printed |-> "Error processing Excel data: write"]
    ELSE [fs |-> WriteLines(f, ExcelReport, ExcelReportLines(read_excel(f.content[ExcelFile]).df)),
          printed |-> "Excel data processed and saved"]

(***************************************************************************)
(* JSON.  A value is a record: t its type, v the text of a scalar, items   *)
(* the members of an array or object in order (k the key, "" in an array). *)
(* A JSON file is the sequence of tokens json.dump writes.                 *)
(***************************************************************************)
StrPool == {"", "a"}
KeyPool == {"a", "b"}

Scalar(t, v) == [t |-> t, v |-> v, items |-> <<>>]
Array(items) == [t |-> "arr", v |-> "", items |-> items]
Object(items) == [t |-> "obj", v |-> "", items |-> items]
Item(k, sc) == [k |-> k, t |-> sc.t, v |-> sc.v]

Scalars ==
    {Scalar("null", "null"), Scalar("bool", "true"), Scalar("bool", "false")}
    \cup {Scalar("num", ToString(n)) : n \in 0..1}
    \cup {Scalar("str", s) : s \in StrPool}

\* the body of a response that is not JSON
NotJson == Scalar("invalid", "<html>")

Quote(s) == "\"" \o s \o "\""

\* json.dumps of a scalar
Lexeme(t, v) == IF t = "str" THEN Quote(v) ELSE v

JsonSpace == {"\n", "    "}

\* json.dump(content, file, indent=4)
json_dump(val) ==
    IF val.t \notin {"arr", "obj"} THEN <<Lexeme(val.t, val.v)>>
    ELSE LET open == IF val.t = "arr" THEN "[" ELSE "{"
             close == IF val.t = "arr" THEN "]" ELSE "}"
             member(i) ==
                 <<"\n", "    ">>
                 \o (IF val.t = "obj" THEN <<Quote(val.items[i].k), ":">> ELSE <<>>)
                 \o <<Lexeme(val.items[i].t, val.items[i].v)>>
                 \o (IF i < Len(val.items) THEN <<",">> ELSE <<>>)
         IN  IF val.items = <<>> THEN <<open \o close>>
             ELSE <<open>> \o Flatten([i \in DOMAIN val.items |-> member(i)]) \o <<"\n", close>>

ParseScalar(tok) ==
    IF tok = "null" THEN Scalar("null", "null")
    ELSE IF tok \in {"true", "false"} THEN Scalar("bool", tok)
    ELSE IF tok \in IntLexemes THEN Scalar("num", tok)
    ELSE Scalar("str", CHOOSE s \in StrPool : Quote(s) = tok)

\* json.load(file)
json_load(tokens) ==
    LET toks == SelectSeq(tokens, LAMBDA t : t \notin JsonSpace)
        n == Len(toks)
    IN  IF toks[1] = "[]" THEN Array(<<>>)
        ELSE IF toks[1] = "{}" THEN Object(<<>>)
        ELSE IF toks[1] = "["
        THEN Array([i \in 1..(n \div 2) |-> Item("", ParseScalar(toks[2 * i]))])
        ELSE IF toks[1] = "{"
        THEN Object([i \in 1..(n \div 4) |->
                       Item(CHOOSE k \in KeyPool : Quote(k) = toks[4 * i - 2],
                            ParseScalar(toks[4 * i]))])
        ELSE ParseScalar(toks[1])

\* the types len() accepts
HasLen(val) == val.t \in {"str", "arr", "obj"}
PyLen(val) == IF val.t = "str" THEN Len(val.v) ELSE Len(val.items)

\* str(value) of a scalar
PyStr(t, v) ==
    IF t = "null" THEN "None"
    ELSE IF t = "bool" THEN (IF v = "true" THEN "True" ELSE "False")
    ELSE v

\* the lines written before data.items() is reached, and the entry lines
\* when the value is a dict
JsonReportLines(data) ==
    << "Item count: " \o ToString(PyLen(data)), "JSON data summary:" >>
    \o (IF data.t = "obj"
        THEN [i \in DOMAIN data.items |->
                data.items[i].k \o ": " \o PyStr(data.items[i].t, data.items[i].v)]
        ELSE <<>>)

\* process_json_data checking the type before it opens the report
process_json_data_checked(f, fault) ==
    IF fault = "read" \/ ~Exists(f, JsonFile)
    THEN [fs |-> f, printed |-> "Error processing JSON data: read"]
    ELSE LET data == json_load(f.content[JsonFile])
         IN  IF data.t # "obj"
             THEN [fs |-> f, printed |-> "Error processing JSON data: not a dict"]
             ELSE IF fault = "write"
             THEN [fs |-> f, printed |-> "Error processing JSON data: write"]
             ELSE [fs |-> WriteLines(f, JsonReport, JsonReportLines(data)),
                   printed |-> "JSON data processed and saved"]

process_json_data(f, fault) ==
    IF fault = "read" \/ ~Exists(f, JsonFile)
    THEN [fs |-> f, printed |-> "Error processing JSON data: read"]
    ELSE LET data == json_load(f.content[JsonFile])
         IN  IF ~HasLen(data)
             THEN [fs |-> f, printed |-> "Error processing JSON data: no len()"]
             ELSE IF fault = "write"
             THEN [fs |-> f, printed |-> "Error processing JSON data: write"]
             ELSE [fs |-> WriteLines(f, JsonReport, JsonReportLines(data)),
                   printed |-> IF data.t = "obj"
                               THEN "JSON data processed and saved"
                               ELSE "Error processing JSON data: no attribute 'items'"]

(***************************************************************************)
(* Fetch and save functions.                                               *)
(***************************************************************************)
DatasetOrder == <<"text", "csv", "excel", "json">>
Datasets == {DatasetOrder[i] : i \in DOMAIN DatasetOrder}

FetchFn(d) ==
    CASE d = "text" -> "fetch_txt_data" [] d = "csv" -> "fetch_csv_data"
      [] d = "excel" -> "fetch_excel_data" [] d = "json" -> "fetch_json_data"
SaveFn(d) ==
    CASE d = "text" -> "save_text" [] d = "csv" -> "save_csv"
      [] d = "excel" -> "save_excel" [] d = "json" -> "save_json"
ProcessFn(d) ==
    CASE d = "text" -> "process_text_data" [] d = "csv" -> "process_csv_data"
      [] d = "excel" -> "process_excel_data" [] d = "json" -> "process_json_data"
FetchLabel(d) ==
    CASE d = "text" -> "text" [] d = "csv" -> "CSV" [] d = "excel" -> "Excel" [] d = "json" -> "JSON"

None == [none |-> TRUE, value |-> <<>>]
Value(v) == [none |-> FALSE, value |-> v]

\* fetch_*_data once requests.get has answered: the value returned and the
\* line printed, or raised when response.json() cannot decode the body
fetch_data(d, response) ==
    IF response.status = 200
    THEN IF d = "json" /\ response.body = NotJson
         THEN [raised |-> TRUE, ret |-> None, printed |-> <<"Traceback: JSONDecodeError">>]
         ELSE [raised |-> FALSE, ret |-> Value(response.body), printed |-> <<>>]
    ELSE [raised |-> FALSE, ret |-> None,
          printed |-> <<"Failed to fetch " \o FetchLabel(d) \o " data: "
                         \o ToString(response.status)>>]

\* file.write(content) after open(file_path, 'w'); str and bytes only
save_plain(f, name, content, fault, label) ==
    IF fault = "write"
    THEN [ok |-> FALSE, fs |-> f, printed |-> "Traceback: OSError"]
    ELSE IF content.none
    THEN [ok |-> FALSE, fs |-> WriteLines(f, name, <<>>), printed |-> "Traceback: TypeError"]
    ELSE [ok |-> TRUE, fs |-> WriteLines(f, name, content.value),
          printed |-> label \o " data saved"]

save_text(f, content, fault) == save_plain(f, TextFile, content, fault, "Text")
save_excel(f, content, fault) == save_plain(f, ExcelFile, content, fault, "Excel")

save_json(f, content, fault) ==
    IF fault = "write"
    THEN [ok |-> FALSE, fs |-> f, printed |-> "Traceback: OSError"]
    ELSE [ok |-> TRUE,
          fs |-> WriteLines(f, JsonFile,
                            json_dump(IF content.none THEN Scalar("null", "null")
                                      ELSE content.value)),
          printed |-> "JSON data saved"]

save_csv(f, content, fault) ==
    LET parsed == read_csv(content.value)
    IN  IF content.none
        THEN [ok |-> FALSE, fs |-> f, printed |-> "Traceback: TypeError"]
        ELSE IF ~parsed.ok
        THEN [ok |-> FALSE, fs |-> f, printed |-> "Traceback: EmptyDataError"]
        ELSE IF fault = "write"
        THEN [ok |-> FALSE, fs |-> f, printed |-> "Traceback: OSError"]
        ELSE [ok |-> TRUE, fs |-> WriteLines(f, CsvFile, to_csv(parsed.df)),
              printed |-> "CSV data saved"]

save(d, f, content, fault) ==
    CASE d = "text" -> save_text(f, content, fault)
      [] d = "csv" -> save_csv(f, content, fault)
      [] d = "excel" -> save_excel(f, content, fault)
      [] d = "json" -> save_json(f, content, fault)

process(d, f, fault) ==
    CASE d = "text" -> process_text_data(f, fault)
      [] d = "csv" -> process_csv_data(f, fault)
      [] d = "excel" -> process_excel_data(f, fault)
      [] d = "json" -> process_json_data(f, fault)

(***************************************************************************)
(* main()                                                                  *)
(***************************************************************************)
Done == <<"done", "">>
Aborted == <<"aborted", "">>

\* the statement after the pipeline of dataset d, in another order
AfterPipelineSwapped(d) ==
    CASE d = "text" -> <<"fetch", "excel">> [] d = "excel" -> <<"fetch", "csv">>
      [] d = "csv" -> <<"fetch", "json">> [] d = "json" -> Done

\* the statement after the pipeline of dataset d
AfterPipeline(d) ==
    CASE d = "text" -> <<"fetch", "csv">> [] d = "csv" -> <<"fetch", "excel">>
      [] d = "excel" -> <<"fetch", "json">> [] d = "json" -> Done

\* bool(content) of a value other than None
Truthy(d, v) ==
    IF d = "json"
    THEN CASE v.t = "null" -> FALSE
           [] v.t = "bool" -> v.v = "true"
           [] v.t = "num" -> v.v # "0"
           [] v.t = "str" -> v.v # ""
           [] OTHER -> v.items # <<>>
    ELSE v # <<>>

\* a guard that lets every fetch result through
BranchAlways(d, content) == <<"save", d>>

\* if <d>_content: the save statement, else the next dataset
Branch(d, content) ==
    IF ~content.none /\ Truthy(d, content.value) THEN <<"save", d>> ELSE AfterPipeline(d)

Call(fn, result) == [fn |-> fn, result |-> result]

Abort(fn, trace, fault) ==
    /\ pc' = Aborted
    /\ calls' = Append(calls, Call(fn, "raised"))
    /\ console' = Append(console, trace)
    /\ envFault' = (envFault \/ fault)

\* <d>_content = fetch_<d>_data(url); if <d>_content:
Fetch(d) ==
    /\ pc = <<"fetch", d>>
    /\ \E transport \in BOOLEAN :
         LET r == fetch_data(d, remote[d])
         IN  IF transport
             THEN Abort(FetchFn(d), "Traceback: ConnectionError", TRUE)
                  /\ UNCHANGED fetched
             ELSE IF r.raised
             THEN Abort(FetchFn(d), r.printed[1], FALSE) /\ UNCHANGED fetched
             ELSE /\ fetched' = r.ret
                  /\ calls' = Append(calls, Call(FetchFn(d), IF r.ret.none THEN "None" ELSE "value"))
                  /\ console' = console \o r.printed
                  /\ pc' = Branch(d, r.ret)
                  /\ UNCHANGED envFault
    /\ UNCHANGED <<remote, fs, run, snapshot>>

\* save_<d>(filename, <d>_content)
Save(d) ==
    /\ pc = <<"save", d>>
    /\ \E fault \in {"none", "write"} :
         LET r == save(d, fs, fetched, fault)
         IN  /\ fs' = r.fs
             /\ IF r.ok
                THEN /\ pc' = <<"process", d>>
                     /\ calls' = Append(calls, Call(SaveFn(d), "returned"))
                     /\ console' = Append(console, r.printed)
                     /\ envFault' = envFault
                ELSE Abort(SaveFn(d), r.printed, r.printed = "Traceback: OSError")
    /\ UNCHANGED <<remote, run, fetched, snapshot>>

\* process_<d>_data('data', filename, processed_filename)
Process(d) ==
    /\ pc = <<"process", d>>
    /\ \E fault \in IoFaults :
         LET r == process(d, fs, fault)
         IN  /\ fs' = r.fs
             /\ console' = Append(console, r.printed)
             /\ envFault' = (envFault \/ fault # "none")
    /\ calls' = Append(calls, Call(ProcessFn(d), "returned"))
    /\ pc' = AfterPipeline(d)
    /\ UNCHANGED <<remote, run, fetched, snapshot>>

FetchText == Fetch("text")
SaveText == Save("text")
ProcessText == Process("text")
FetchCsv == Fetch("csv")
SaveCsv == Save("csv")
ProcessCsv == Process("csv")
FetchExcel == Fetch("excel")
SaveExcel == Save("excel")
ProcessExcel == Process("excel")
FetchJson == Fetch("json")
SaveJson == Save("json")
ProcessJson == Process("json")

Reports(f) ==
    [present |-> f.present \cap ReportNames,
     content |-> [n \in ReportNames |-> f.content[n]]]

\* the script is run again; the data directory is as the last run left it
RunAgain ==
    /\ pc \in {Done, Aborted}
    /\ run < MaxRuns
    /\ run' = run + 1
    /\ snapshot' = IF run = 1 THEN Reports(fs) ELSE snapshot
    /\ pc' = <<"fetch", "text">>
    /\ console' = <<>>
    /\ calls' = <<>>
    /\ fetched' = None
    /\ UNCHANGED <<remote, fs, envFault>>

(***************************************************************************)
(* Initial states and specifications.                                      *)
(***************************************************************************)
AllFiles == {TextFile, CsvFile, ExcelFile, JsonFile} \cup ReportNames

EmptyFs == [present |-> {}, content |-> [n \in AllFiles |-> <<>>]]

WithFile(f, name, content) ==
    [f EXCEPT !.present = @ \cup {name}, !.content[name] = content]

\* the body of an error page, as the fetch function of d would read it
ErrorBody(d) == IF d = "json" THEN NotJson ELSE <<>>
NotFound(d) == [status |-> 404, body |-> ErrorBody(d)]
Failures(d) ==
    {NotFound(d)} \cup (IF d = "text" THEN {[status |-> 500, body |-> ErrorBody(d)]} ELSE {})
Ok(body) == [status |-> 200, body |-> body]

TextBodies == {<<>>, <<"a", " ", "A", "\n", "a">>}

CsvBodies ==
    { <<>>, << <<>> >>, << <<"a", "b">>, <<>>, <<"1", "x">>, <<"2", "y">> >> }

ExcelBodies ==
    { <<>>, << <<"garbage">> >>,
      << XlsMagic, <<"a", "b">>, <<"1", "x">>, <<"2", "y">> >> }

JsonBodies ==
    { NotJson,
      Object(<<>>), Object(<<Item("a", Scalar("num", "1")), Item("b", Scalar("str", "a"))>>),
      Array(<<>>), Array(<<Item("", Scalar("num", "1"))>>),
      Scalar("null", "null"), Scalar("bool", "false"), Scalar("num", "0"),
      Scalar("num", "1") }

Bodies(d) ==
    CASE d = "text" -> TextBodies [] d = "csv" -> CsvBodies
      [] d = "excel" -> ExcelBodies [] d = "json" -> JsonBodies

Responses(d) == Failures(d) \cup {Ok(b) : b \in Bodies(d)}

NoReports == Reports(EmptyFs)

\* a first run of main() in an empty data directory, the four URLs
\* answering the same way every time they are asked
Init ==
    /\ \E t \in Responses("text"), c \in Responses("csv"),
          e \in Responses("excel"), j \in Responses("json") :
            remote = [d \in Datasets |->
                        CASE d = "text" -> t [] d = "csv" -> c
                          [] d = "excel" -> e [] d = "json" -> j]
    /\ fs = EmptyFs
    /\ pc = <<"fetch", "text">>
    /\ console = <<>>
    /\ calls = <<>>
    /\ run = 1
    /\ fetched = None
    /\ snapshot = NoReports
    /\ envFault = FALSE

Next ==
    \/ FetchText \/ SaveText \/ ProcessText
    \/ FetchCsv \/ SaveCsv \/ ProcessCsv
    \/ FetchExcel \/ SaveExcel \/ ProcessExcel
    \/ FetchJson \/ SaveJson \/ ProcessJson
    \/ RunAgain

Spec == Init /\ [][Next]_vars

NoRemote == [d \in Datasets |-> NotFound(d)]

Standalone(position, f) ==
    /\ remote = NoRemote
    /\ fs = f
    /\ pc = position
    /\ console = <<>>
    /\ calls = <<>>
    /\ run = 1
    /\ fetched = None
    /\ snapshot = NoReports
    /\ envFault = FALSE

\* process_text_data on any text file of at most MaxLen characters
Alphabet == {"a", "A", ".", " ", "\n"}

InitText ==
    \E text \in SeqsUpTo(Alphabet, MaxLen) :
        Standalone(<<"process", "text">>, WithFile(EmptyFs, TextFile, text))

NextText == ProcessText

SpecText == InitText /\ [][NextText]_vars

\* the CSV and Excel pipelines of main() on the same table
Cells == {"1", "2", "x"}
Headers == {<<"a">>, <<"a", "b">>}
Tables ==
    UNION {{[columns |-> h, rows |-> rows] : rows \in SeqsUpTo([DOMAIN h -> Cells], MaxRows)}
              : h \in Headers}

InitTab ==
    \E df \in Tables :
        /\ remote = [NoRemote EXCEPT !["csv"] = Ok(to_csv(df)),
                                     !["excel"] = Ok(<<XlsMagic>> \o to_csv(df))]
        /\ fs = EmptyFs
        /\ pc = <<"fetch", "csv">>
        /\ console = <<>>
        /\ calls = <<>>
        /\ run = 1
        /\ fetched = None
        /\ snapshot = NoReports
        /\ envFault = FALSE

NextTab ==
    \/ FetchCsv \/ SaveCsv \/ ProcessCsv
    \/ FetchExcel \/ SaveExcel \/ ProcessExcel

SpecTab == InitTab /\ [][NextTab]_vars

\* process_json_data on any saved JSON file, the report absent or left by
\* an earlier run
ItemSeqs(keys) ==
    {[i \in DOMAIN keys |-> Item(keys[i], vals[i])] : vals \in [DOMAIN keys -> Scalars]}

JsonValues ==
    Scalars
    \cup {Array(items) : items \in UNION {ItemSeqs([i \in 1..n |-> ""]) : n \in 0..MaxItems}}
    \cup {Object(items) :
            items \in UNION {ItemSeqs(keys) :
                               keys \in {ks \in SeqsUpTo(KeyPool, MaxItems) :
                                           \A i, j \in DOMAIN ks : i # j => ks[i] # ks[j]}}}

OldJsonReport == <<"Item count: 1", "JSON data summary:", "old: 1">>

InitJson ==
    \E val \in JsonValues, stale \in BOOLEAN :
        Standalone(<<"process", "json">>,
                   LET f == WithFile(EmptyFs, JsonFile, json_dump(val))
                   IN  IF stale THEN WithFile(f, JsonReport, OldJsonReport) ELSE f)

NextJson == ProcessJson

SpecJson == InitJson /\ [][NextJson]_vars

(***************************************************************************)
(* Properties of main().                                                   *)
(***************************************************************************)
Last(s) == s[Len(s)]
CallsOf(fn) == {i \in DOMAIN calls : calls[i].fn = fn}
Position(d) == CHOOSE k \in DOMAIN DatasetOrder : DatasetOrder[k] = d
Finished == pc \in {Done, Aborted}

\* C1: whatever the outcomes of the fetch, save and process calls, a run
\* that has ended has attempted the fetch of each of the four datasets
\* exactly once.
C1_EveryFetchAttemptedOnce ==
    Finished => \A d \in Datasets : Cardinality(CallsOf(FetchFn(d))) = 1

\* C2: a fetch that answered 200 and returned its payload, whatever the
\* payload, is followed by the save of that dataset, and a save that
\* returned is followed by the process step of that dataset.
C2_SuccessfulFetchIsSavedAndProcessed ==
    calls # <<>> =>
        \A d \in Datasets :
            /\ Last(calls) = Call(FetchFn(d), "value") => pc = <<"save", d>>
            /\ Last(calls) = Call(SaveFn(d), "returned") => pc = <<"process", d>>

JsonErrorLines ==
    {"Error processing JSON data: read", "Error processing JSON data: write",
     "Error processing JSON data: no len()",
     "Error processing JSON data: no attribute 'items'"}

FollowingFetch(d) ==
    IF Position(d) = Len(DatasetOrder) THEN Done
    ELSE <<"fetch", DatasetOrder[Position(d) + 1]>>

\* C4: a fetch that met a status other than 200 returned None after
\* printing the status; neither the save nor the process function of that
\* dataset is called, and the next thing main() does is fetch the dataset
\* that follows in the order text, CSV, Excel, JSON.
C4_FailedFetchSkipsDataset ==
    \A d \in Datasets : \A i \in CallsOf(FetchFn(d)) :
        /\ (remote[d].status # 200 /\ calls[i].result # "raised") => calls[i].result = "None"
        /\ calls[i].result = "None" =>
            /\ remote[d].status # 200
            /\ \E k \in DOMAIN console :
                 console[k] = "Failed to fetch " \o FetchLabel(d) \o " data: "
                                 \o ToString(remote[d].status)
            /\ CallsOf(SaveFn(d)) = {} /\ CallsOf(ProcessFn(d)) = {}
            /\ IF i = Len(calls) THEN pc = FollowingFetch(d)
               ELSE /\ Position(d) < Len(DatasetOrder)
                    /\ calls[i + 1].fn = FetchFn(DatasetOrder[Position(d) + 1])

C4_Witness ==
    /\ Len(calls) >= 2
    /\ calls[1] = Call("fetch_txt_data", "None")
    /\ calls[2].fn = "fetch_csv_data"

\* the place of a call in the order fetch, save, process of text, then of
\* CSV, Excel and JSON
Functions == {FetchFn(d) : d \in Datasets} \cup {SaveFn(d) : d \in Datasets}
                 \cup {ProcessFn(d) : d \in Datasets}
Rank ==
    [fn \in Functions |->
        CHOOSE r \in 1..(3 * Len(DatasetOrder)) : \E k \in DOMAIN DatasetOrder :
            \/ fn = FetchFn(DatasetOrder[k]) /\ r = 3 * k - 2
            \/ fn = SaveFn(DatasetOrder[k]) /\ r = 3 * k - 1
            \/ fn = ProcessFn(DatasetOrder[k]) /\ r = 3 * k]

\* C5: the calls of a run follow the order text, CSV, Excel, JSON and,
\* within a dataset, fetch, save, process; a save directly follows the
\* fetch that returned its content, a process step directly follows the
\* save that returned, and nothing is called after a call that raised.
C5_FixedOrder ==
    /\ \A i \in DOMAIN calls : i > 1 => Rank[calls[i - 1].fn] < Rank[calls[i].fn]
    /\ \A d \in Datasets : \A j \in DOMAIN calls :
        /\ calls[j].fn = ProcessFn(d) => j > 1 /\ calls[j - 1] = Call(SaveFn(d), "returned")
        /\ calls[j].fn = SaveFn(d) => j > 1 /\ calls[j - 1] = Call(FetchFn(d), "value")
    /\ \A i \in DOMAIN calls : calls[i].result = "raised" => i = Len(calls) /\ pc = Aborted
    /\ calls # <<>> => calls[1].fn = "fetch_txt_data"

C5_Witness == pc = Done /\ Len(calls) = 12

\* C9: after a second run against the same answers, with no transport or
\* local filesystem fault in either run, the four report files are
\* present or absent, and hold the lines, as the first run left them.
C9_SecondRunLeavesSameReports ==
    (run >= 2 /\ Finished /\ ~envFault) => Reports(fs) = snapshot

C9_Witness ==
    /\ run = 2 /\ pc = Done /\ ~envFault
    /\ ReportNames \subseteq fs.present
    /\ Len(fs.content[TextReport]) > 3
    /\ Len(fs.content[JsonReport]) > 2

(***************************************************************************)
(* Properties of process_text_data.                                        *)
(***************************************************************************)
TheText == fs.content[TextFile]
IsWordChar(i) == TheText[i] \notin Whitespace

\* where a whitespace-delimited token starts, and the token starting there
Starts == {i \in DOMAIN TheText : IsWordChar(i) /\ (i = 1 \/ ~IsWordChar(i - 1))}
EndOf(i) ==
    CHOOSE j \in i..Len(TheText) :
        /\ \A k \in i..j : IsWordChar(k)
        /\ j = Len(TheText) \/ ~IsWordChar(j + 1)
TokenAt(i) == SubSeq(TheText, i, EndOf(i))
Occurrences(i) == Cardinality({k \in Starts : TokenAt(k) = TokenAt(i)})

\* the starts of the tokens not seen earlier in the text, and the k-th of them
FirstStarts == {i \in Starts : \A k \in Starts : k < i => TokenAt(k) # TokenAt(i)}
NthFirst(k) == CHOOSE i \in FirstStarts : Cardinality({m \in FirstStarts : m < i}) = k - 1

TextProcessed ==
    pc = <<"fetch", "csv">> /\ console = <<"Text data processed and saved">>

\* C7: the report holds 'Total words: N', N the number of whitespace-
\* delimited tokens of the file, and 'Unique words: M', M the number of
\* distinct tokens compared character by character; of an empty file it
\* holds zero for both and no frequency line.
C7_TotalAndUniqueWords ==
    TextProcessed =>
        LET report == fs.content[TextReport]
        IN  /\ TextReport \in fs.present
            /\ Len(report) >= 3
            /\ report[1] = "Total words: " \o ToString(Cardinality(Starts))
            /\ report[2] = "Unique words: "
                             \o ToString(Cardinality({TokenAt(i) : i \in Starts}))
            /\ report[3] = "Word frequencies:"
            /\ TheText = <<>> =>
                 report = <<"Total words: 0", "Unique words: 0", "Word frequencies:">>

C7_Witness ==
    /\ TextProcessed
    /\ Cardinality(Starts) = 3
    /\ {TokenAt(i) : i \in Starts} = {<<"a">>, <<"A">>}

\* C8: the frequency lines name each distinct token once, in the order of
\* the tokens' first occurrences, each with its number of occurrences; so
\* there are as many lines as unique words and the counts add up to the
\* total.
C8_FrequenciesInFirstSeenOrder ==
    TextProcessed =>
        LET report == fs.content[TextReport]
            firsts == [k \in 1..Cardinality(FirstStarts) |-> NthFirst(k)]
        IN  /\ SubSeq(report, 4, Len(report))
                 = [k \in DOMAIN firsts |->
                      Join(TokenAt(firsts[k])) \o ": " \o ToString(Occurrences(firsts[k]))]
            /\ report[2] = "Unique words: " \o ToString(Len(report) - 3)
            /\ report[1] = "Total words: "
                             \o ToString(SumSeq([k \in DOMAIN firsts |-> Occurrences(firsts[k])]))

C8_Witness ==
    /\ TextProcessed
    /\ TheText = <<"a", " ", "A", " ", "a">>
    /\ SubSeq(fs.content[TextReport], 4, 5) = <<"a: 2", "A: 1">>

(***************************************************************************)
(* Properties of the tabular summarizers.                                  *)
(***************************************************************************)
TabProcessed ==
    /\ pc = <<"fetch", "json">>
    /\ \E i \in DOMAIN console : console[i] = "CSV data processed and saved"
    /\ \E i \in DOMAIN console : console[i] = "Excel data processed and saved"

SavedHeader == fs.content[CsvFile][1]
SavedRowCount == Len(fs.content[CsvFile]) - 1
Digits == {"0", "1", "2", "3", "4", "5", "6", "7", "8", "9"}
SavedNumericColumns ==
    {j \in DOMAIN SavedHeader :
        /\ SavedRowCount > 0
        /\ \A i \in 2..Len(fs.content[CsvFile]) : fs.content[CsvFile][i][j] \in Digits}

\* C6 as the specification states it: the two reports of the same table
\* are the same sequence of lines.
C6_ReportsIdentical ==
    TabProcessed => fs.content[CsvReport] = fs.content[ExcelReport]

\* C6, amended: of the same table the two reports hold, for the same
\* numeric columns in the same order, the same five statistic lines; the
\* Excel report heads each column 'Statistics for <column>:' and holds
\* nothing else, the CSV report lists the rows under 'Rows as tuples:' and
\* heads each column with an empty line and '<column>:' under
\* 'Statistics for numeric columns:'.
C6_SameStatisticLines ==
    TabProcessed =>
        LET csv == fs.content[CsvReport]
            xls == fs.content[ExcelReport]
            k == Cardinality(SavedNumericColumns)
            base == SavedRowCount + 3
        IN  /\ Len(xls) = 6 * k
            /\ Len(csv) = base + 7 * k
            /\ csv[1] = "Rows as tuples:"
            /\ csv[base - 1] = "" /\ csv[base] = "Statistics for numeric columns:"
            /\ \A b \in 1..k :
                 /\ \E j \in SavedNumericColumns :
                      /\ Cardinality({m \in SavedNumericColumns : m < j}) = b - 1
                      /\ csv[base + 7 * (b - 1) + 1] = ""
                      /\ csv[base + 7 * (b - 1) + 2] = SavedHeader[j] \o ":"
                      /\ xls[6 * (b - 1) + 1] = "Statistics for " \o SavedHeader[j] \o ":"
                 /\ \A m \in 1..5 :
                      csv[base + 7 * (b - 1) + 2 + m] = xls[6 * (b - 1) + 1 + m]

C6_Witness ==
    /\ TabProcessed
    /\ SavedRowCount = 2
    /\ Len(fs.content[ExcelReport]) = 12
    /\ fs.content[ExcelReport][4] = "Standard Deviation: sqrt(1/2)"

(***************************************************************************)
(* Properties of process_json_data.                                        *)
(***************************************************************************)
JsonPunctuation == {"[", "]", "{", "}", ",", ":", "[]", "{}"} \cup JsonSpace

\* the number of items of the array, or of characters of the string, that
\* the tokens of a JSON file spell
SavedLength(tokens) ==
    IF Len(tokens) = 1 /\ tokens[1] \notin JsonPunctuation
    THEN Len(tokens[1]) - 2
    ELSE Len(SelectSeq(tokens, LAMBDA t : t \notin JsonPunctuation))

\* C10: when process_json_data meets a top-level value that is no
\* mapping, and no filesystem fault, it returns after printing an error
\* line; the report file is as it was when the value has no length, and
\* holds exactly 'Item count: N' and 'JSON data summary:' when it has one.
C10_FailureLeavesReport ==
    [][ (/\ pc = <<"process", "json">>
         /\ ~envFault'
         /\ Exists(fs, JsonFile)
         /\ json_load(fs.content[JsonFile]).t # "obj")
        => /\ pc' = Done
           /\ Last(calls') = Call("process_json_data", "returned")
           /\ Last(console') \in JsonErrorLines
           /\ IF json_load(fs.content[JsonFile]).t \in {"arr", "str"}
              THEN /\ JsonReport \in fs'.present
                   /\ fs'.content[JsonReport]
                        = << "Item count: " \o ToString(SavedLength(fs.content[JsonFile])),
                             "JSON data summary:" >>
              ELSE Reports(fs') = Reports(fs) ]_vars

C10_Witness ==
    /\ pc = Done /\ ~envFault
    /\ json_load(fs.content[JsonFile]).t = "arr"
    /\ fs.content[JsonReport] = <<"Item count: 2", "JSON data summary:">>
    /\ Last(console) = "Error processing JSON data: no attribute 'items'"

====
